---- MODULE Spec2Model ----
(***************************************************************************)
(* Model of the two discounted-cash-flow calculators of the repository:    *)
(*   - models/gdcf.py   class DCF: scalar parameters, fluent setters, calc *)
(*   - models/dcf_m1.py class DCF: statement driven, calculate_dcf         *)
(*                                                                         *)
(* Numbers.  Python floats are modelled as exact rationals [k |-> "num",   *)
(* n, d] in lowest terms with d > 0, plus the float NaN [k |-> "nan"].     *)
(* Every arithmetic step of the code is one operator application here, in  *)
(* the order the code performs it; the rounding of a single float          *)
(* operation is not modelled.  NaN follows IEEE/Python: arithmetic with    *)
(* NaN gives NaN and every ordering comparison with NaN is false.  Python  *)
(* float division by 0.0 raises ZeroDivisionError, so every division site  *)
(* tests its divisor.  Other value kinds: "str" a non-numeric argument,    *)
(* "txt" a numeric string (as statement providers deliver line items),     *)
(* "null" Python None.                                                     *)
(*                                                                         *)
(* Each method call is one atomic step, except a calculate_dcf that has to *)
(* ask for the EBIT: it waits in input() holding the arguments it was      *)
(* called with, other callers' setters may run on the object meanwhile,    *)
(* and it goes on from input_returns.  Several calls may wait at once, in  *)
(* which case any of them may receive the next line; the model explores up *)
(* to MaxWaiting of them.  lastOp, ret, warned and prompted hold what the  *)
(* caller of the last call saw; prev_run holds the outcome of the call     *)
(* before it when both were calculations.  Left out: the progress and      *)
(* summary text the methods print, set_ticker (the ticker is only          *)
(* printed) and the getters.                                               *)
(***************************************************************************)
EXTENDS Integers, Sequences, FiniteSets, TLC

\* ------------------------------------------------------------------ bounds
\* longest growth-rate list a caller passes to set_growth_rates
MaxLen == 2
\* largest forecast_period a caller passes to set_forecast_parameters
MaxPeriod == 1
\* most calculate_dcf calls waiting in input() at the same time
MaxWaiting == 2

\* ------------------------------------------------------------------ values
Abs(x) == IF x < 0 THEN -x ELSE x

RECURSIVE GCD(_, _)
GCD(a, b) == IF b = 0 THEN a ELSE GCD(b, a % b)

\* a Python number n/d, in lowest terms
Rat(n, d) ==
    LET g == GCD(Abs(n), Abs(d))
        s == IF d < 0 THEN -1 ELSE 1
    IN  [k |-> "num", n |-> (s * n) \div g, d |-> (s * d) \div g]

Num(n) == [k |-> "num", n |-> n, d |-> 1]
NaN == [k |-> "nan", n |-> 0, d |-> 1]
Str == [k |-> "str", n |-> 0, d |-> 1]
Null == [k |-> "null", n |-> 0, d |-> 1]
Txt(n, d) == [k |-> "txt", n |-> n, d |-> d]

\* isinstance(x, (int, float))
IsNumber(x) == x.k \in {"num", "nan"}

\* x + y, x - y, x * y on Python numbers
Add(x, y) ==
    IF x.k = "nan" \/ y.k = "nan" THEN NaN
    ELSE LET g == GCD(x.d, y.d)
         IN  Rat(x.n * (y.d \div g) + y.n * (x.d \div g), (x.d \div g) * y.d)

Neg(x) == IF x.k = "nan" THEN NaN ELSE [x EXCEPT !.n = -x.n]

Sub(x, y) == Add(x, Neg(y))

Mul(x, y) ==
    IF x.k = "nan" \/ y.k = "nan" THEN NaN
    ELSE LET g1 == GCD(Abs(x.n), y.d)
             g2 == GCD(Abs(y.n), x.d)
         IN  Rat((x.n \div g1) * (y.n \div g2), (x.d \div g2) * (y.d \div g1))

\* y == 0.0 : the test Python's float division makes before dividing
IsZero(y) == y.k = "num" /\ y.n = 0

\* x / y for a divisor that is not zero
Div(x, y) ==
    IF x.k = "nan" \/ y.k = "nan" THEN NaN
    ELSE Mul(x, Rat(y.d, y.n))

\* x ** e for a non-negative int e
RECURSIVE Pow(_, _)
Pow(x, e) == IF e = 0 THEN Num(1) ELSE Mul(x, Pow(x, e - 1))

\* x < y, x <= y : false whenever a NaN is involved
Lt(x, y) == x.k = "num" /\ y.k = "num" /\ x.n * y.d < y.n * x.d
Le(x, y) == x.k = "num" /\ y.k = "num" /\ x.n * y.d <= y.n * x.d

Zero == Num(0)
One == Num(1)

\* ------------------------------------------------------------------- state
VARIABLES
    impl,                   \* which class the object under use is: "gdcf" or "dcf_m1"
    \* gdcf.DCF fields
    current_fcf, growth_rates, terminal_growth_rate, wacc,
    cash_and_equivalents, total_debt, shares_outstanding,
    \* dcf_m1.DCF fields
    ev_statement, income_statement, balance_statement, cashflow_statement,
    discount_rate, forecast_period, earnings_growth_rate, cap_ex_growth_rate,
    perpetual_growth_rate, enterprise_value, equity_value, share_price, date,
    pending,                \* the calculate_dcf calls waiting in input(), oldest first
    \* what the last call did, as its caller observes it
    lastOp,                 \* [op, arg, raised] of the last call
    ret,                    \* its return value, or the exception it raised
    warned,                 \* it printed the "Current FCF is zero or negative" warning
    prompted,               \* the input() prompts it issued, each with the line typed
    prev_run                \* outcome of the call before it, when that was a calculation

scalar_vars == <<current_fcf, growth_rates, terminal_growth_rate, wacc,
                 cash_and_equivalents, total_debt, shares_outstanding>>
input_vars == <<ev_statement, income_statement, balance_statement,
                cashflow_statement, discount_rate, forecast_period,
                earnings_growth_rate, cap_ex_growth_rate, perpetual_growth_rate>>
stored_vars == <<enterprise_value, equity_value, share_price, date>>
statement_vars == <<input_vars, stored_vars, pending>>
vars == <<impl, scalar_vars, statement_vars, lastOp, ret, warned, prompted, prev_run>>

\* the seven stored parameters of a gdcf.DCF, by field name
Config == [current_fcf |-> current_fcf,
           growth_rates |-> growth_rates,
           terminal_growth_rate |-> terminal_growth_rate,
           wacc |-> wacc,
           cash_and_equivalents |-> cash_and_equivalents,
           total_debt |-> total_debt,
           shares_outstanding |-> shares_outstanding]

\* --------------------------------------------------------- call bookkeeping
Self == [kind |-> "self"]
Raise(err, msg) == [kind |-> "raise", err |-> err, msg |-> msg]
NoRun == [calc |-> FALSE]
NoArg == [k |-> "none"]
CalcOps == {"calc", "calculate_dcf"}

\* the outcome of the calculation that ended just before this call, if one did;
\* undisturbed: no setter changed the fields that calculation had read while it ran
calc_before ==
    IF lastOp.op \in CalcOps /\ ret.kind # "blocked"
    THEN [calc |-> TRUE, op |-> lastOp.op, ret |-> ret, prompted |-> prompted,
          undisturbed |-> IF lastOp.op = "calc" THEN TRUE ELSE lastOp.arg.undisturbed]
    ELSE NoRun

\* the caller's record of one call: what was called and, for a calculation that
\* directly follows a calculation, what that one gave
Called(op, arg, raised) ==
    /\ lastOp' = [op |-> op, arg |-> arg, raised |-> raised]
    /\ prev_run' = IF op \in CalcOps THEN calc_before ELSE NoRun

\* a setter: raise ValueError(msg) and store nothing, or store and return self
Setter(op, arg, rejected, msg) ==
    /\ Called(op, arg, rejected)
    /\ ret' = IF rejected THEN Raise("ValueError", msg) ELSE Self
    /\ warned' = FALSE
    /\ prompted' = <<>>

\* ------------------------------------------------------- gdcf.DCF: setters
\* arguments callers pass; the last ones of each set are rejected
FcfArgs == {Num(0), Num(2), NaN, Num(-1), Str}
RateArgs == {Rat(1, 2), Rat(-1, 4)}
RateLists == UNION {[1..n -> RateArgs] : n \in 0..MaxLen}
GrowthArgs == {[k |-> "list", items |-> l] : l \in RateLists}
                  \cup {[k |-> "list", items |-> <<Rat(1, 2), Str>>], [k |-> "str", items |-> <<>>]}
TerminalArgs == {Rat(1, 50), Rat(1, 4), NaN, Str}
WaccArgs == {Rat(1, 50), Rat(1, 2), Num(0), Num(1), NaN, Str}
CashArgs == {Num(0), Num(1), Num(-1), Str}
DebtArgs == {Num(0), Num(1), Num(-1), Str}
SharesArgs == {Num(1), Num(2), NaN, Num(0), Num(-1), Str}

set_current_fcf(fcf) ==
    LET rejected == ~IsNumber(fcf) \/ Lt(fcf, Zero) IN
    /\ impl = "gdcf"
    /\ Setter("set_current_fcf", fcf, rejected, "Current FCF must be a non-negative number.")
    /\ current_fcf' = IF rejected THEN current_fcf ELSE fcf
    /\ UNCHANGED <<impl, growth_rates, terminal_growth_rate, wacc, cash_and_equivalents,
                   total_debt, shares_outstanding, statement_vars>>

set_growth_rates(rates) ==
    LET rejected == rates.k # "list"
                    \/ ~(\A i \in 1..Len(rates.items) : IsNumber(rates.items[i])) IN
    /\ impl = "gdcf"
    /\ Setter("set_growth_rates", rates, rejected, "Growth rates must be a list of numbers.")
    /\ growth_rates' = IF rejected THEN growth_rates ELSE rates.items
    /\ UNCHANGED <<impl, current_fcf, terminal_growth_rate, wacc, cash_and_equivalents,
                   total_debt, shares_outstanding, statement_vars>>

set_terminal_growth_rate(rate) ==
    LET rejected == ~IsNumber(rate) IN
    /\ impl = "gdcf"
    /\ Setter("set_terminal_growth_rate", rate, rejected, "Terminal growth rate must be a number.")
    /\ terminal_growth_rate' = IF rejected THEN terminal_growth_rate ELSE rate
    /\ UNCHANGED <<impl, current_fcf, growth_rates, wacc, cash_and_equivalents,
                   total_debt, shares_outstanding, statement_vars>>

set_wacc(w) ==
    LET rejected == ~IsNumber(w) \/ ~(Lt(Zero, w) /\ Lt(w, One)) IN
    /\ impl = "gdcf"
    /\ Setter("set_wacc", w, rejected, "WACC must be a number between 0 and 1 (exclusive).")
    /\ wacc' = IF rejected THEN wacc ELSE w
    /\ UNCHANGED <<impl, current_fcf, growth_rates, terminal_growth_rate,
                   cash_and_equivalents, total_debt, shares_outstanding, statement_vars>>

set_cash_and_equivalents(cash) ==
    LET rejected == ~IsNumber(cash) \/ Lt(cash, Zero) IN
    /\ impl = "gdcf"
    /\ Setter("set_cash_and_equivalents", cash, rejected,
              "Cash and equivalents must be a non-negative number.")
    /\ cash_and_equivalents' = IF rejected THEN cash_and_equivalents ELSE cash
    /\ UNCHANGED <<impl, current_fcf, growth_rates, terminal_growth_rate, wacc,
                   total_debt, shares_outstanding, statement_vars>>

\* mutant: the argument is stored before it is validated
set_total_debt_store_first(debt) ==
    LET rejected == ~IsNumber(debt) \/ Lt(debt, Zero) IN
    /\ impl = "gdcf"
    /\ Setter("set_total_debt", debt, rejected, "Total debt must be a non-negative number.")
    /\ total_debt' = debt
    /\ UNCHANGED <<impl, current_fcf, growth_rates, terminal_growth_rate, wacc,
                   cash_and_equivalents, shares_outstanding, statement_vars>>

set_total_debt(debt) ==
    LET rejected == ~IsNumber(debt) \/ Lt(debt, Zero) IN
    /\ impl = "gdcf"
    /\ Setter("set_total_debt", debt, rejected, "Total debt must be a non-negative number.")
    /\ total_debt' = IF rejected THEN total_debt ELSE debt
    /\ UNCHANGED <<impl, current_fcf, growth_rates, terminal_growth_rate, wacc,
                   cash_and_equivalents, shares_outstanding, statement_vars>>

set_shares_outstanding(shares) ==
    LET rejected == ~IsNumber(shares) \/ Le(shares, Zero) IN
    /\ impl = "gdcf"
    /\ Setter("set_shares_outstanding", shares, rejected,
              "Shares outstanding must be a positive number.")
    /\ shares_outstanding' = IF rejected THEN shares_outstanding ELSE shares
    /\ UNCHANGED <<impl, current_fcf, growth_rates, terminal_growth_rate, wacc,
                   cash_and_equivalents, total_debt, statement_vars>>

\* ---------------------------------------------------------- gdcf.DCF: calc
\* mutant: the check written with < for <=
wacc_below(w, tgr) == Lt(w, tgr)

\* self._wacc <= self._terminal_growth_rate
wacc_not_above(w, tgr) == Le(w, tgr)

\* mutant: last_fcf is never advanced, every year grows from the first base
RECURSIVE projected_fcfs_from_base(_, _)
projected_fcfs_from_base(last_fcf, rates) ==
    IF rates = <<>> THEN <<>>
    ELSE <<Mul(last_fcf, Add(One, Head(rates)))>>
             \o projected_fcfs_from_base(last_fcf, Tail(rates))

\* step 1: next_fcf = last_fcf * (1 + growth_rate), appended, for each rate in order
RECURSIVE projected_fcfs(_, _)
projected_fcfs(last_fcf, rates) ==
    IF rates = <<>> THEN <<>>
    ELSE LET next_fcf == Mul(last_fcf, Add(One, Head(rates)))
         IN  <<next_fcf>> \o projected_fcfs(next_fcf, Tail(rates))

\* step 2: present_value_of_fcfs += fcf / (1 + wacc) ** (i + 1), over the first n flows
RECURSIVE present_value_of_fcfs(_, _, _)
present_value_of_fcfs(fcfs, w, n) ==
    IF n = 0 THEN Zero
    ELSE Add(present_value_of_fcfs(fcfs, w, n - 1), Div(fcfs[n], Pow(Add(One, w), n)))

\* step 3: (last_projected_fcf * (1 + g)) / (wacc - g), divisor not zero
terminal_value(last_projected_fcf, tgr, w) ==
    Div(Mul(last_projected_fcf, Add(One, tgr)), Sub(w, tgr))

\* mutant: cash netted with the sign of debt
equity_of_cash_subtracted(ev, cash, debt) == Sub(Sub(ev, cash), debt)

\* step 6: enterprise_value + cash - debt
equity_of(ev, cash, debt) == Sub(Add(ev, cash), debt)

\* mutant: the guard written with < for <=
negative_shares(shares) == Lt(shares, Zero)

\* step 7 guard: self._shares_outstanding <= 0
no_shares(shares) == Le(shares, Zero)

ZeroDivision == Raise("ZeroDivisionError", "float division by zero")

\* what calc() returns or raises on the given stored parameters
calc_result(fcf, rates, tgr, w, cash, debt, shares) ==
    IF wacc_not_above(w, tgr)
    THEN Raise("ValueError", "WACC must be greater than the terminal growth rate for a stable terminal value calculation.")
    ELSE IF rates = <<>>
    THEN Raise("ValueError", "Growth rates list cannot be empty. Please set growth rates for projection period.")
    ELSE IF IsZero(Add(One, w)) \/ IsZero(Sub(w, tgr))
    THEN ZeroDivision
    ELSE LET fcfs == projected_fcfs(fcf, rates)
             pv == present_value_of_fcfs(fcfs, w, Len(fcfs))
             tv == terminal_value(fcfs[Len(fcfs)], tgr, w)
             pvtv == Div(tv, Pow(Add(One, w), Len(rates)))
             ev == Add(pv, pvtv)
             eq == equity_of(ev, cash, debt)
         IN  IF no_shares(shares)
             THEN [kind |-> "zero"]
             ELSE IF IsZero(shares)
             THEN ZeroDivision
             ELSE [kind |-> "record",
                   projected_fcfs |-> fcfs,
                   present_value_of_fcfs |-> pv,
                   terminal_value |-> tv,
                   present_value_of_terminal_value |-> pvtv,
                   enterprise_value |-> ev,
                   equity_value |-> eq,
                   intrinsic_value_per_share |-> Div(eq, shares)]

\* the warning of line 88-89 is printed once both checks have passed
calc_warns(fcf, rates, tgr, w) ==
    ~wacc_not_above(w, tgr) /\ rates # <<>> /\ Le(fcf, Zero)

\* mutant: calc() writes the last projected flow back as the current FCF
calc_storing_last_fcf ==
    \E r \in {calc_result(current_fcf, growth_rates, terminal_growth_rate, wacc,
                          cash_and_equivalents, total_debt, shares_outstanding)} :
    /\ impl = "gdcf"
    /\ Called("calc", NoArg, r.kind = "raise")
    /\ ret' = r
    /\ warned' = calc_warns(current_fcf, growth_rates, terminal_growth_rate, wacc)
    /\ prompted' = <<>>
    /\ current_fcf' = IF r.kind = "record"
                      THEN r.projected_fcfs[Len(r.projected_fcfs)] ELSE current_fcf
    /\ UNCHANGED <<impl, growth_rates, terminal_growth_rate, wacc, cash_and_equivalents,
                   total_debt, shares_outstanding, statement_vars>>

calc ==
    \E r \in {calc_result(current_fcf, growth_rates, terminal_growth_rate, wacc,
                          cash_and_equivalents, total_debt, shares_outstanding)} :
    /\ impl = "gdcf"
    /\ Called("calc", NoArg, r.kind = "raise")
    /\ ret' = r
    /\ warned' = calc_warns(current_fcf, growth_rates, terminal_growth_rate, wacc)
    /\ prompted' = <<>>
    /\ UNCHANGED <<impl, scalar_vars, statement_vars>>

\* a test writes the field directly, bypassing set_shares_outstanding
InjectArgs == {Num(0), Num(-1)}
inject_shares_outstanding(shares) ==
    /\ impl = "gdcf"
    /\ Called("inject", shares, FALSE)
    /\ shares_outstanding' = shares
    /\ ret' = [kind |-> "none"]
    /\ warned' = FALSE
    /\ prompted' = <<>>
    /\ UNCHANGED <<impl, current_fcf, growth_rates, terminal_growth_rate, wacc,
                   cash_and_equivalents, total_debt, statement_vars>>

ScalarNext ==
    \/ \E fcf \in FcfArgs : set_current_fcf(fcf)
    \/ \E rates \in GrowthArgs : set_growth_rates(rates)
    \/ \E rate \in TerminalArgs : set_terminal_growth_rate(rate)
    \/ \E w \in WaccArgs : set_wacc(w)
    \/ \E cash \in CashArgs : set_cash_and_equivalents(cash)
    \/ \E debt \in DebtArgs : set_total_debt(debt)
    \/ \E shares \in SharesArgs : set_shares_outstanding(shares)
    \/ calc

\* ------------------------------------------------- dcf_m1.DCF: statements
\* A statement record is a Python dict: a function from line-item names to values.
BaseDate == "2020-12-31"
PriorDate == "2019-12-31"

\* income-statement record of the base year; ebit = "missing" leaves the key out
IncomeRecord(ebit, ebt) ==
    LET rest == ("date" :> BaseDate) @@ ("Income Tax Expense" :> Txt(1, 1))
                    @@ ("Earnings before Tax" :> ebt)
    IN  IF ebit.k = "missing" THEN rest ELSE rest @@ ("EBIT" :> ebit)

PriorIncomeRecord ==
    ("date" :> PriorDate) @@ ("EBIT" :> Txt(1, 1)) @@ ("Income Tax Expense" :> Txt(1, 1))
        @@ ("Earnings before Tax" :> Txt(2, 1))

BalanceRecord(assets, non_current) ==
    ("Total assets" :> assets) @@ ("Total non-current assets" :> non_current)

CashflowRecord ==
    ("Depreciation & Amortization" :> Txt(1, 1)) @@ ("Capital Expenditure" :> Txt(-1, 1))

EvRecord(shares) ==
    ("+ Total Debt" :> Num(1)) @@ ("- Cash & Cash Equivalents" :> Num(-2))
        @@ ("Number of Shares" :> shares)

\* base-year EBIT as providers deliver it: key absent, None, 0, "0", 2
Missing == [k |-> "missing", n |-> 0, d |-> 1]
EbitArgs == {Missing, Null, Num(0), Txt(0, 1), Num(2)}
EbtArgs == {Txt(2, 1)}
ShareCountArgs == {Txt(0, 1), Txt(2, 1)}

StatementArgs ==
    {[ev |-> EvRecord(sh),
      income |-> <<IncomeRecord(e, t), PriorIncomeRecord>>,
      balance |-> <<BalanceRecord(Txt(5, 1), Txt(2, 1)), BalanceRecord(Txt(4, 1), Txt(2, 1))>>,
      cashflow |-> <<CashflowRecord, CashflowRecord>>] :
        e \in EbitArgs, t \in EbtArgs, sh \in ShareCountArgs}

ForecastArgs ==
    [discount_rate : {Rat(1, 4)},
     forecast_period : 1..MaxPeriod,
     earnings_growth_rate : {Rat(1, 2)},
     cap_ex_growth_rate : {Rat(1, 4)},
     perpetual_growth_rate : {Rat(1, 8), Rat(1, 4), Rat(1, 2)}]

\* what input() gives: the line "2", the line "0", a line that is no number, or
\* EOFError when stdin is at end of file
Eof == [k |-> "eof", n |-> 0, d |-> 1]
TypedArgs == {Txt(2, 1), Txt(0, 1), Str, Eof}
\* the line of a prompt that has not been answered yet, or was never issued
NotTyped == [k |-> "nottyped", n |-> 0, d |-> 1]

\* a list or dict held in a field that is None until set
Object(v) == [k |-> "object", v |-> v]

\* bool(x) of a line item
Truthy(x) ==
    CASE x.k = "null" -> FALSE
      [] x.k = "num" -> x.n # 0
      [] OTHER -> TRUE

\* float(x) of a number or a numeric string
ToFloat(x) == IF x.k = "txt" THEN Rat(x.n, x.d) ELSE x

set_statements(s) ==
    /\ impl = "dcf_m1"
    /\ Called("set_statements", NoArg, FALSE)
    /\ ret' = Self /\ warned' = FALSE /\ prompted' = <<>>
    /\ ev_statement' = Object(s.ev)
    /\ income_statement' = Object(s.income)
    /\ balance_statement' = Object(s.balance)
    /\ cashflow_statement' = Object(s.cashflow)
    /\ UNCHANGED <<impl, scalar_vars, discount_rate, forecast_period,
                   earnings_growth_rate, cap_ex_growth_rate, perpetual_growth_rate,
                   stored_vars, pending>>

set_forecast_parameters(p) ==
    /\ impl = "dcf_m1"
    /\ Called("set_forecast_parameters", NoArg, FALSE)
    /\ ret' = Self /\ warned' = FALSE /\ prompted' = <<>>
    /\ discount_rate' = p.discount_rate
    /\ forecast_period' = Num(p.forecast_period)
    /\ earnings_growth_rate' = p.earnings_growth_rate
    /\ cap_ex_growth_rate' = p.cap_ex_growth_rate
    /\ perpetual_growth_rate' = p.perpetual_growth_rate
    /\ UNCHANGED <<impl, scalar_vars, ev_statement, income_statement,
                   balance_statement, cashflow_statement, stored_vars, pending>>

\* ------------------------------------------------ dcf_m1.DCF: calculation
ulFCF(ebit, tax_rate, non_cash_charges, cwc, cap_ex) ==
    Add(Add(Add(Mul(ebit, Sub(One, tax_rate)), non_cash_charges), cwc), cap_ex)

\* the prompt of line 95, with the date it names, and the line typed in answer
Prompt(on_date, typed) ==
    [text |-> "EBIT missing. Enter EBIT on {} or skip: ", date |-> on_date, typed |-> typed]

\* income_statement[0]['EBIT'] is truthy: the value is read, input() is not called
ebit_present(record) == Truthy(record["EBIT"])

\* lines 92-95: the starting EBIT and the prompts issued to get it
starting_ebit(record, typed) ==
    IF ebit_present(record)
    THEN [ebit |-> ToFloat(record["EBIT"]), prompted |-> <<>>]
    ELSE [ebit |-> ToFloat(typed), prompted |-> <<Prompt(record["date"], typed)>>]

\* the loop of lines 108-117, years yr..period, from the running values in st
RECURSIVE forecast(_, _, _, _, _, _)
forecast(st, yr, period, discount, egr, cgr) ==
    IF yr > period THEN st
    ELSE LET ebit == Mul(st.ebit, Add(One, Mul(Num(yr), egr)))
             non_cash_charges == Mul(st.non_cash_charges, Add(One, Mul(Num(yr), egr)))
             cwc == Mul(st.cwc, Rat(7, 10))
             cap_ex == Mul(st.cap_ex, Add(One, Mul(Num(yr), cgr)))
             flow == ulFCF(ebit, st.tax_rate, non_cash_charges, cwc, cap_ex)
             PV_flow == Div(flow, Pow(Add(One, discount), yr))
         IN  forecast([ebit |-> ebit, tax_rate |-> st.tax_rate,
                       non_cash_charges |-> non_cash_charges, cwc |-> cwc,
                       cap_ex |-> cap_ex, flow |-> flow,
                       flows |-> Append(st.flows, PV_flow)],
                      yr + 1, period, discount, egr, cgr)

\* lines 96-104: the running values before the first forecast year
base_year(ebit, income, cashflow, balance) ==
    [ebit |-> ebit,
     tax_rate |-> Div(ToFloat(income[1]["Income Tax Expense"]),
                      ToFloat(income[1]["Earnings before Tax"])),
     non_cash_charges |-> ToFloat(cashflow[1]["Depreciation & Amortization"]),
     cwc |-> Sub(Sub(ToFloat(balance[1]["Total assets"]),
                     ToFloat(balance[1]["Total non-current assets"])),
                 Sub(ToFloat(balance[2]["Total assets"]),
                     ToFloat(balance[2]["Total non-current assets"]))),
     cap_ex |-> ToFloat(cashflow[1]["Capital Expenditure"]),
     flow |-> Null,
     flows |-> <<>>]

RECURSIVE sum(_, _)
sum(flows, n) == IF n = 0 THEN Zero ELSE Add(sum(flows, n - 1), flows[n])

\* line 128: the flow the terminal value grows from is flows[-1]
final_flow(st) == st.flows[Len(st.flows)]

\* lines 126-132, for a forecast of at least one year and discount # perpetual growth
npv_total(st, period, discount, pgr) ==
    LET NPV_FCF == sum(st.flows, Len(st.flows))
        final_cashflow == Mul(final_flow(st), Add(One, pgr))
        TV == Div(final_cashflow, Sub(discount, pgr))
        NPV_TV == Div(TV, Pow(Add(One, discount), 1 + period))
    IN  Add(NPV_TV, NPV_FCF)

Failed(err, msg, prompts) ==
    [kind |-> "raise", err |-> err, msg |-> msg, prompted |-> prompts]

\* _enterprise_value_calculation: the value returned or the exception raised, and
\* the prompts issued on the way; typed is the line the user would type if asked
enterprise_value_calculation(income, cashflow, balance, period, discount, egr, cgr, pgr, typed) ==
    IF income.k = "null"
    THEN Failed("TypeError", "'NoneType' object is not subscriptable", <<>>)
    ELSE IF "EBIT" \notin DOMAIN income.v[1]
    THEN Failed("KeyError", "EBIT", <<>>)
    ELSE LET start == starting_ebit(income.v[1], typed) IN
    IF start.ebit.k = "eof"
    THEN Failed("EOFError", "EOF when reading a line", start.prompted)
    ELSE IF start.ebit.k = "str"
    THEN Failed("ValueError", "could not convert string to float", start.prompted)
    ELSE IF IsZero(ToFloat(income.v[1]["Earnings before Tax"]))
    THEN Failed("ZeroDivisionError", "float division by zero", start.prompted)
    ELSE IF period.k = "null"
    THEN Failed("TypeError", "unsupported operand type(s) for +: 'NoneType' and 'int'",
                start.prompted)
    ELSE IF period.n >= 1 /\ IsZero(Add(One, discount))
    THEN Failed("ZeroDivisionError", "float division by zero", start.prompted)
    ELSE LET st == forecast(base_year(start.ebit, income.v, cashflow.v, balance.v),
                            1, period.n, discount, egr, cgr) IN
    IF st.flows = <<>>
    THEN Failed("IndexError", "list index out of range", start.prompted)
    ELSE IF IsZero(Sub(discount, pgr))
    THEN Failed("ZeroDivisionError", "float division by zero", start.prompted)
    ELSE [kind |-> "value", v |-> npv_total(st, period.n, discount, pgr),
          prompted |-> start.prompted]

\* _equity_value_calculation, for a share count that is not zero
equity_value_calculation(ev, enterprise_value_statement) ==
    LET equity_val == Add(Sub(ev, enterprise_value_statement["+ Total Debt"]),
                          enterprise_value_statement["- Cash & Cash Equivalents"])
    IN  [equity_val |-> equity_val,
         share_price |-> Div(equity_val,
                             ToFloat(enterprise_value_statement["Number of Shares"]))]

\* lines 45-52: the fields _calculate_enterprise_value passes on
call_args ==
    [income |-> income_statement, cashflow |-> cashflow_statement,
     balance |-> balance_statement, period |-> forecast_period,
     discount |-> discount_rate, egr |-> earnings_growth_rate,
     cgr |-> cap_ex_growth_rate, pgr |-> perpetual_growth_rate]

NoPending == <<>>

\* what the caller notes of a calculate_dcf call: whether the fields the call was
\* made with are still the object's fields when it ends
Ran(undisturbed) == [k |-> "run", undisturbed |-> undisturbed]

\* line 92 is reached and falls through to input()
needs_input(income) ==
    /\ income.k = "object"
    /\ "EBIT" \in DOMAIN income.v[1]
    /\ ~ebit_present(income.v[1])

\* calculate_dcf from the point where the starting EBIT is known (or the call has
\* failed before): _enterprise_value_calculation on the arguments a the call was
\* made with, then lines 45 and 55-74 on the fields as they are now
run_dcf(a, typed, before) ==
    \E r \in {enterprise_value_calculation(a.income, a.cashflow, a.balance, a.period,
                  a.discount, a.egr, a.cgr, a.pgr, typed)} :
    LET no_shares_at_all == IsZero(ToFloat(ev_statement.v["Number of Shares"]))
        e == equity_value_calculation(r.v, ev_statement.v)
        raised == r.kind = "raise" \/ no_shares_at_all
    IN
    /\ lastOp' = [op |-> "calculate_dcf", arg |-> Ran(a = call_args), raised |-> raised]
    /\ prev_run' = before
    /\ warned' = FALSE
    /\ prompted' = r.prompted
    /\ UNCHANGED <<impl, scalar_vars, input_vars>>
    /\ IF r.kind = "raise"
       THEN /\ ret' = Raise(r.err, r.msg)
            /\ UNCHANGED stored_vars
       ELSE IF no_shares_at_all
       THEN /\ ret' = ZeroDivision
            /\ enterprise_value' = r.v
            /\ UNCHANGED <<equity_value, share_price, date>>
       ELSE /\ enterprise_value' = r.v
            /\ equity_value' = e.equity_val
            /\ share_price' = e.share_price
            /\ date' = income_statement.v[1]["date"]
            /\ ret' = [kind |-> "record",
                       date |-> income_statement.v[1]["date"],
                       enterprise_value |-> r.v,
                       equity_value |-> e.equity_val,
                       share_price |-> e.share_price]

\* a call of calculate_dcf: it runs to its end, or it issues the prompt of line 95
\* and waits for the line
calculate_dcf ==
    /\ impl = "dcf_m1"
    /\ IF needs_input(income_statement)
       THEN /\ Len(pending) < MaxWaiting
            /\ pending' = Append(pending, call_args)
            /\ lastOp' = [op |-> "calculate_dcf", arg |-> Ran(TRUE), raised |-> FALSE]
            /\ prev_run' = calc_before
            /\ ret' = [kind |-> "blocked"]
            /\ warned' = FALSE
            /\ prompted' = <<Prompt(income_statement.v[1]["date"], NotTyped)>>
            /\ UNCHANGED <<impl, scalar_vars, input_vars, stored_vars>>
       ELSE /\ run_dcf(call_args, NotTyped, calc_before)
            /\ UNCHANGED pending

\* input() returns the typed line to one of the waiting calls, or raises EOFError
\* in it, and that call goes on; it directly follows the run recorded in prev_run
\* only if it is the call made last and nothing was called since
input_returns(i, typed) ==
    /\ impl = "dcf_m1"
    /\ i \in 1..Len(pending)
    /\ run_dcf(pending[i], typed,
               IF i = Len(pending) /\ lastOp.op = "calculate_dcf" /\ ret.kind = "blocked"
               THEN prev_run ELSE NoRun)
    /\ pending' = [j \in 1..(Len(pending) - 1) |->
                      IF j < i THEN pending[j] ELSE pending[j + 1]]

StatementNext ==
    \/ \E s \in StatementArgs : set_statements(s)
    \/ \E p \in ForecastArgs : set_forecast_parameters(p)
    \/ calculate_dcf
    \/ \E i \in 1..MaxWaiting, typed \in TypedArgs : input_returns(i, typed)

\* ------------------------------------------------------------ specification
\* both constructors, lines gdcf.py 4-12 and dcf_m1.py 8-22
Init ==
    /\ impl \in {"gdcf", "dcf_m1"}
    /\ current_fcf = Zero
    /\ growth_rates = <<>>
    /\ terminal_growth_rate = Rat(1, 50)
    /\ wacc = Rat(1, 10)
    /\ cash_and_equivalents = Zero
    /\ total_debt = Zero
    /\ shares_outstanding = One
    /\ ev_statement = Null
    /\ income_statement = Null
    /\ balance_statement = Null
    /\ cashflow_statement = Null
    /\ discount_rate = Null
    /\ forecast_period = Null
    /\ earnings_growth_rate = Null
    /\ cap_ex_growth_rate = Null
    /\ perpetual_growth_rate = Null
    /\ enterprise_value = Null
    /\ equity_value = Null
    /\ share_price = Null
    /\ date = "None"
    /\ pending = NoPending
    /\ lastOp = [op |-> "__init__", arg |-> NoArg, raised |-> FALSE]
    /\ ret = [kind |-> "none"]
    /\ warned = FALSE
    /\ prompted = <<>>
    /\ prev_run = NoRun

Next == ScalarNext \/ StatementNext

Spec == Init /\ [][Next]_vars

\* a gdcf.DCF object alone
InitScalar == Init /\ impl = "gdcf"

SpecScalar == InitScalar /\ [][ScalarNext]_vars

\* the same, with tests that also write _shares_outstanding directly
NextInject == ScalarNext \/ \E shares \in InjectArgs : inject_shares_outstanding(shares)

SpecInject == InitScalar /\ [][NextInject]_vars

\* =================================================================== claims
WaccError == Raise("ValueError", "WACC must be greater than the terminal growth rate for a stable terminal value calculation.")

\* C1: whenever calc() runs on a stored configuration with wacc <= terminal growth
\* rate, it raises the WACC ValueError, whatever the other parameters are (also with
\* an empty growth-rate list), prints no warning and returns no result record.
C1_calc_rejects_wacc_not_above_growth ==
    (lastOp.op = "calc" /\ Le(wacc, terminal_growth_rate))
        => (ret = WaccError /\ ~warned)

\* C1 witness: Scenario B, calc() ran with wacc = terminal growth rate = 0.02 and a
\* non-empty growth-rate list, and raised.
C1_witness ==
    /\ lastOp.op = "calc"
    /\ wacc = Rat(1, 50) /\ terminal_growth_rate = Rat(1, 50)
    /\ growth_rates # <<>>
    /\ ret.kind = "raise"

\* C3: a calc() that returns a record returns one projected flow per growth rate,
\* the first grown from current_fcf and each later one from the flow before it; a
\* calc() on an empty growth-rate list raises.
C3_projection_compounds ==
    lastOp.op = "calc" =>
        /\ growth_rates = <<>> => ret.kind = "raise"
        /\ ret.kind = "record" =>
            /\ Len(ret.projected_fcfs) = Len(growth_rates)
            /\ ret.projected_fcfs[1] = Mul(current_fcf, Add(One, growth_rates[1]))
            /\ \A i \in 2..Len(growth_rates) :
                   ret.projected_fcfs[i] =
                       Mul(ret.projected_fcfs[i - 1], Add(One, growth_rates[i]))

\* C3 witness: calc() returned a record for a positive current_fcf and a growth-rate
\* list of the longest length, with two different rates in it.
C3_witness ==
    /\ lastOp.op = "calc" /\ ret.kind = "record"
    /\ current_fcf = Num(2)
    /\ Len(growth_rates) = MaxLen
    /\ growth_rates[1] # growth_rates[MaxLen]

\* C5: in every record calc() returns, enterprise value is the sum of the two present
\* values, equity value is enterprise value plus cash minus debt, and the per-share
\* value is equity value divided by the share count, with no rounding.
C5_roll_up ==
    (lastOp.op = "calc" /\ ret.kind = "record") =>
        /\ ret.enterprise_value =
               Add(ret.present_value_of_fcfs, ret.present_value_of_terminal_value)
        /\ ret.equity_value =
               Sub(Add(ret.enterprise_value, cash_and_equivalents), total_debt)
        /\ ret.intrinsic_value_per_share = Div(ret.equity_value, shares_outstanding)

\* C5 witness: calc() returned a record with non-zero cash and debt and two shares.
C5_witness ==
    /\ lastOp.op = "calc" /\ ret.kind = "record"
    /\ current_fcf = Num(2)
    /\ cash_and_equivalents = Num(1) /\ total_debt = Num(1)
    /\ shares_outstanding = Num(2)

\* C6: calc() on a configuration whose share count is <= 0 (written into the field
\* directly) and which passes both calc-time checks returns the value 0: no error,
\* no record.
C6_no_shares_returns_zero ==
    (/\ lastOp.op = "calc"
     /\ Le(shares_outstanding, Zero)
     /\ Lt(terminal_growth_rate, wacc)
     /\ growth_rates # <<>>)
        => ret = [kind |-> "zero"]

\* C6 witness: Scenario C, calc() ran with an injected share count of 0 and
\* returned 0.
C6_witness ==
    /\ lastOp.op = "calc"
    /\ shares_outstanding = Zero
    /\ current_fcf = Num(2)
    /\ ret.kind = "zero"

\* C8 as claimed: a calculation that directly follows a calculation on the same
\* object gives the same outcome.
C8_as_claimed == (prev_run.calc /\ ret.kind # "blocked") => ret = prev_run.ret

\* the fields the run that just ended was called with were still the object's
\* fields when it ended (always so for calc, which never waits)
Undisturbed == lastOp.op = "calc" \/ lastOp.arg.undisturbed

\* C8 amended: a calculation that directly follows a calculation on the same object
\* gives the same outcome whenever the same lines were typed at the EBIT prompt in
\* both runs (trivially so when no prompt was issued) and no setter changed the
\* fields either run had read while it waited at the prompt.
C8_idempotent_given_same_typed_lines ==
    (/\ prev_run.calc /\ ret.kind # "blocked"
     /\ prompted = prev_run.prompted
     /\ prev_run.undisturbed /\ Undisturbed)
        => ret = prev_run.ret

\* C8 witness: calculate_dcf ran twice in a row undisturbed, prompted for the EBIT
\* both times, got the same line both times and returned a record.
C8_witness ==
    /\ prev_run.calc
    /\ lastOp.op = "calculate_dcf"
    /\ prev_run.undisturbed /\ Undisturbed
    /\ prompted # <<>> /\ prompted = prev_run.prompted
    /\ ret.kind = "record"

\* the field each gdcf setter owns
SetterField ==
    ("set_current_fcf" :> "current_fcf")
        @@ ("set_growth_rates" :> "growth_rates")
        @@ ("set_terminal_growth_rate" :> "terminal_growth_rate")
        @@ ("set_wacc" :> "wacc")
        @@ ("set_cash_and_equivalents" :> "cash_and_equivalents")
        @@ ("set_total_debt" :> "total_debt")
        @@ ("set_shares_outstanding" :> "shares_outstanding")

\* C10: a setter call either raises and leaves all seven stored parameters as they
\* were, or returns self having assigned its argument to its own parameter and
\* nothing else.
C10_setter_frame ==
    [][lastOp'.op \in DOMAIN SetterField =>
          IF lastOp'.raised
          THEN ret'.kind = "raise" /\ Config' = Config
          ELSE /\ ret' = Self
               /\ Config' = [Config EXCEPT ![SetterField[lastOp'.op]] =
                                IF lastOp'.op = "set_growth_rates"
                                THEN lastOp'.arg.items ELSE lastOp'.arg]]_vars

\* C10 witness: set_total_debt rejected its argument on an object whose debt and
\* wacc had been set before, and both still hold the accepted values.
C10_witness ==
    /\ lastOp.op = "set_total_debt" /\ lastOp.raised
    /\ total_debt = Num(1)
    /\ wacc = Rat(1, 2)
    /\ growth_rates # <<>>

\* C2 as claimed: calculate_dcf on forecast parameters with discount rate <= perpetual
\* growth rate raises, and what it raises is not the ZeroDivisionError of a division.
C2_as_claimed ==
    (/\ lastOp.op = "calculate_dcf" /\ ret.kind # "blocked" /\ lastOp.arg.undisturbed
     /\ discount_rate.k = "num" /\ perpetual_growth_rate.k = "num"
     /\ Le(discount_rate, perpetual_growth_rate))
        => (ret.kind = "raise" /\ ret.err # "ZeroDivisionError")

\* the running values after the last forecast year of the run that just returned
LastYear ==
    LET rec == income_statement.v[1]
        ebit == IF prompted = <<>> THEN ToFloat(rec["EBIT"]) ELSE ToFloat(prompted[1].typed)
    IN  forecast(base_year(ebit, income_statement.v, cashflow_statement.v, balance_statement.v),
                 1, forecast_period.n, discount_rate, earnings_growth_rate,
                 cap_ex_growth_rate)

\* C4 as claimed: the enterprise value calculate_dcf returns (on fields no setter
\* changed during the run) is the sum of the yearly present values plus the terminal
\* value of the final year's undiscounted flow, flow * (1 + g) / (d - g), discounted
\* by (1 + d) ** (1 + period).
C4_as_claimed ==
    (lastOp.op = "calculate_dcf" /\ ret.kind = "record" /\ lastOp.arg.undisturbed) =>
        ret.enterprise_value =
            Add(Div(Div(Mul(LastYear.flow, Add(One, perpetual_growth_rate)),
                        Sub(discount_rate, perpetual_growth_rate)),
                    Pow(Add(One, discount_rate), 1 + forecast_period.n)),
                sum(LastYear.flows, Len(LastYear.flows)))

\* C7 as claimed: a calculate_dcf run that has ended, made on set statements that no
\* setter changed during the run, issued no prompt when the base-year EBIT is present
\* and non-zero, and exactly one prompt, naming the base year's date, when it is
\* missing, null or zero.
C7_as_claimed ==
    (/\ lastOp.op = "calculate_dcf" /\ ret.kind # "blocked" /\ lastOp.arg.undisturbed
     /\ income_statement.k = "object") =>
        LET rec == income_statement.v[1]
            missing == "EBIT" \notin DOMAIN rec
            absent == missing \/ rec["EBIT"].k = "null" \/ IsZero(rec["EBIT"])
            present == ~missing /\ rec["EBIT"].k \in {"num", "txt"}
                           /\ ~IsZero(ToFloat(rec["EBIT"]))
        IN  /\ present => prompted = <<>>
            /\ absent => (Len(prompted) = 1 /\ prompted[1].date = rec["date"])

\* C9 as claimed: on every object reached through the setters, current_fcf >= 0,
\* 0 < wacc < 1, cash >= 0, debt >= 0 and shares > 0, and calc() raises or returns a
\* record.
C9_as_claimed ==
    /\ Le(Zero, current_fcf)
    /\ Lt(Zero, wacc) /\ Lt(wacc, One)
    /\ Le(Zero, cash_and_equivalents)
    /\ Le(Zero, total_debt)
    /\ Lt(Zero, shares_outstanding)
    /\ lastOp.op = "calc" => ret.kind \in {"raise", "record"}

====
